---- MODULE Spec2Model ----
(***************************************************************************)
(* Model of app/database_init.py: init_db(), drop_db() and reset_db()      *)
(* running against a PostgreSQL database through a SQLAlchemy engine.      *)
(*                                                                         *)
(* The database is the set of tables of the public schema together with    *)
(* the foreign keys between them.  Base.metadata (the schema registry)     *)
(* knows the tables in Registry; tables in Extra were created outside the  *)
(* model layer.  Every engine call may fail (connection loss), which is a  *)
(* nondeterministic input of the step that issues the call.                *)
(***************************************************************************)
EXTENDS Integers, Sequences, FiniteSets, TLC

\* Number of tables registered in Base.metadata (1 = users, 2 = orders, ...).
NumRegistered == 2
\* Number of tables that may exist in the database but not in Base.metadata.
NumExtra == 1

Registry == 1..NumRegistered
Extra == (NumRegistered + 1)..(NumRegistered + NumExtra)
AllTables == Registry \cup Extra

\* Foreign keys declared in the models: every other registered table
\* references table 1 (orders.user_id -> users.id).  <<a, b>>: a references b.
RegistryFKs == {<<t, 1>> : t \in Registry \ {1}}
\* Foreign keys added outside the model layer: an extra table referencing users.
ExtraFKs == {<<t, 1>> : t \in Extra}

EmptyDb == [tables |-> {}, fks |-> {}]

\* The database states the environment can have produced before the first call.
Databases ==
    {[tables |-> T, fks |-> F] :
        T \in SUBSET AllTables,
        F \in SUBSET (RegistryFKs \cup ExtraFKs)}

WellFormed(d) == \A f \in d.fks : f[1] \in d.tables /\ f[2] \in d.tables

VARIABLES
    db,         \* committed state of the database (public schema)
    txn,        \* state seen by the open connection's transaction
    openConns,  \* connections acquired by this module and not yet released
    pc,         \* position of the running call; "idle" between calls
    op,         \* the function the caller invoked last
    outcome,    \* how that call ended: "none" (running), "returned", "raised"
    raised,     \* the exception that reached the caller, or "none"
    before,     \* db when the call started
    dropDb,     \* how the call's drop_db() ended: "none", "returned", "raised"
    prevInitOk, \* the call before this one was init_db() and returned
    e,          \* exception caught at line 27, or "none"
    e2,         \* exception caught at line 46, or "none"
    tables,     \* the list built at line 38
    i,          \* index of the next element of tables in the loop of line 41
    trace       \* engine calls and log records of the current call, in order

vars == <<db, txn, openConns, pc, op, outcome, raised, before, dropDb,
          prevInitOk, e, e2, tables, i, trace>>

----
\* Exceptions, named by the engine call that raises them.
PrimaryErrors == {"drop_all:DependentObjectsStillExist", "drop_all:OperationalError"}
FallbackErrors == {"connect:OperationalError", "query:OperationalError",
                   "drop:OperationalError", "commit:OperationalError"}
InitErrors == {"create_all:DuplicateTable", "create_all:OperationalError"}

EngineCall(name, t) == [kind |-> "call", name |-> name, table |-> t, exc |-> "none"]
LogRecord(level, msg, x) == [kind |-> level, name |-> msg, table |-> 0, exc |-> x]

\* Mutant: create_all(checkfirst=False) issues CREATE TABLE for tables that exist.
CreateAllNoCheckfirst(d) ==
    IF d.tables \cap Registry # {}
    THEN [ok |-> FALSE, db |-> d]
    ELSE [ok |-> TRUE,
          db |-> [tables |-> d.tables \cup Registry, fks |-> d.fks \cup RegistryFKs]]

\* Base.metadata.create_all(bind=engine): checkfirst defaults to True, so only
\* the registered tables that are missing are created, with their foreign keys.
CreateAll(d) ==
    [ok |-> TRUE,
     db |-> [tables |-> d.tables \cup Registry,
             fks |-> d.fks \cup {f \in RegistryFKs : f[1] \notin d.tables}]]

\* DROP TABLE t (no CASCADE) is refused while another table references t.
Blocked(d, t) == \E f \in d.fks : f[2] = t /\ f[1] # t

DropTable(d, t) ==
    [tables |-> d.tables \ {t}, fks |-> {f \in d.fks : f[1] # t}]

\* drop_all drops the registered tables in reverse dependency order:
\* the referencing tables first, table 1 last.
DropOrder == [k \in 1..NumRegistered |-> NumRegistered + 1 - k]

RECURSIVE DropAllFrom(_, _)
DropAllFrom(d, k) ==
    IF k > NumRegistered THEN [ok |-> TRUE, db |-> d]
    ELSE LET t == DropOrder[k] IN
         IF t \notin d.tables THEN DropAllFrom(d, k + 1)
         ELSE IF Blocked(d, t) THEN [ok |-> FALSE, db |-> d]
         ELSE DropAllFrom(DropTable(d, t), k + 1)

\* Base.metadata.drop_all(bind=engine): runs in one transaction (engine.begin()),
\* so a failure leaves the database as it was.
DropAll(d) ==
    LET r == DropAllFrom(d, 1) IN
    IF r.ok THEN r ELSE [ok |-> FALSE, db |-> d]

\* DROP TABLE IF EXISTS "t" CASCADE: removes t and every foreign key on or to it.
DropCascade(d, t) ==
    [tables |-> d.tables \ {t},
     fks |-> {f \in d.fks : f[1] # t /\ f[2] # t}]

\* Mutant: the fallback lists the tables of Base.metadata instead of the catalog.
PgTablesRegistered(d) == d.tables \cap Registry

\* SELECT tablename FROM pg_tables WHERE schemaname = 'public'
PgTables(d) == d.tables

\* The orders in which the rows of a query over S can come back.
Orderings(S) ==
    {s \in [1..Cardinality(S) -> S] : \A a, b \in 1..Cardinality(S) : s[a] = s[b] => a = b}

----
Init ==
    /\ db \in {d \in Databases : WellFormed(d)}
    /\ txn = EmptyDb
    /\ openConns = 0
    /\ pc = "idle"
    /\ op = "none"
    /\ outcome = "none"
    /\ raised = "none"
    /\ before = db
    /\ dropDb = "none"
    /\ prevInitOk = FALSE
    /\ e = "none"
    /\ e2 = "none"
    /\ tables = <<>>
    /\ i = 1
    /\ trace = <<>>

\* A caller invokes f: the per-call state starts afresh.
Enter(f) ==
    /\ pc = "idle"
    /\ op' = f
    /\ outcome' = "none"
    /\ raised' = "none"
    /\ before' = db
    /\ dropDb' = "none"
    /\ prevInitOk' = (op = "init_db" /\ outcome = "returned")
    /\ e' = "none"
    /\ e2' = "none"
    /\ tables' = <<>>
    /\ i' = 1
    /\ UNCHANGED <<db, txn, openConns>>

\* The call returns to / raises x into the caller of this module.
Return == pc' = "idle" /\ outcome' = "returned" /\ raised' = "none"
Raise(x) == pc' = "idle" /\ outcome' = "raised" /\ raised' = x

CallInitDb ==
    /\ Enter("init_db")
    /\ pc' = "init_db"
    /\ trace' = <<>>

CallDropDb ==
    /\ Enter("drop_db")
    /\ pc' = "drop_db"
    /\ trace' = <<>>

\* reset_db(), line 53, then the call of drop_db() at line 54.
CallResetDb ==
    /\ Enter("reset_db")
    /\ pc' = "drop_db"
    /\ trace' = <<LogRecord("info", "Resetting database...", "none")>>

\* init_db(): lines 14-15; under reset_db() also line 56.  No handler encloses
\* create_all, here or in reset_db(), so its exception reaches the caller.
InitDb ==
    /\ pc = "init_db"
    /\ \E fault \in BOOLEAN :
        LET r == CreateAll(db)
            issued == Append(trace, EngineCall("create_all", 0))
            created == Append(issued, LogRecord("info", "Database tables created.", "none"))
        IN  IF fault \/ ~r.ok
            THEN /\ trace' = issued
                 /\ Raise(IF fault THEN "create_all:OperationalError"
                                   ELSE "create_all:DuplicateTable")
                 /\ db' = db
            ELSE /\ db' = r.db
                 /\ trace' = IF op = "reset_db"
                             THEN Append(created, LogRecord("info", "Database reset complete.", "none"))
                             ELSE created
                 /\ Return
    /\ UNCHANGED <<txn, openConns, op, before, dropDb, prevInitOk, e, e2, tables, i>>

\* drop_db() returns: reset_db() goes on to line 55, a direct caller gets control.
DropDbReturns ==
    /\ dropDb' = "returned"
    /\ IF op = "reset_db"
       THEN pc' = "init_db" /\ UNCHANGED <<outcome, raised>>
       ELSE Return

\* Mutant: reset_db() catches the exception of drop_db() and goes on to init_db().
DropDbRaisesSwallowed(x) ==
    /\ dropDb' = "raised"
    /\ IF op = "reset_db"
       THEN pc' = "init_db" /\ UNCHANGED <<outcome, raised>>
       ELSE Raise(x)

\* drop_db() raises x at line 48: reset_db() has no handler around line 54,
\* so x leaves reset_db() as well.
DropDbRaises(x) ==
    /\ dropDb' = "raised"
    /\ Raise(x)

\* Mutant: the fallback is not guarded by the except clause and runs after a
\* successful drop_all too.
DropDbPrimaryAlwaysFallback ==
    /\ pc = "drop_db"
    /\ \E fault \in BOOLEAN :
        LET r == DropAll(db)
            issued == Append(trace, EngineCall("drop_all", 0))
        IN  IF fault \/ ~r.ok
            THEN LET x == IF fault THEN "drop_all:OperationalError"
                                   ELSE "drop_all:DependentObjectsStillExist"
                 IN /\ e' = x
                    /\ trace' = Append(issued, LogRecord("warning", "drop_all failed", x))
                    /\ db' = db
            ELSE /\ db' = r.db
                 /\ trace' = Append(issued,
                        LogRecord("info", "Database tables dropped successfully using drop_all.", "none"))
                 /\ e' = e
    /\ pc' = "connect"
    /\ UNCHANGED <<txn, openConns, op, outcome, raised, dropDb, before, prevInitOk, e2, tables, i>>

\* drop_db(), lines 23-28: the primary path and the handler that starts the fallback.
DropDbPrimary ==
    /\ pc = "drop_db"
    /\ \E fault \in BOOLEAN :
        LET r == DropAll(db)
            issued == Append(trace, EngineCall("drop_all", 0))
        IN  IF fault \/ ~r.ok
            THEN LET x == IF fault THEN "drop_all:OperationalError"
                                   ELSE "drop_all:DependentObjectsStillExist"
                 IN /\ e' = x
                    /\ trace' = Append(issued, LogRecord("warning", "drop_all failed", x))
                    /\ pc' = "connect"
                    /\ UNCHANGED <<db, outcome, raised, dropDb>>
            ELSE /\ db' = r.db
                 /\ trace' = Append(issued,
                        LogRecord("info", "Database tables dropped successfully using drop_all.", "none"))
                 /\ e' = e
                 /\ DropDbReturns
    /\ UNCHANGED <<txn, openConns, op, before, prevInitOk, e2, tables, i>>

\* Mutant: the connection is not closed when the block is left.
ConnExitLeak ==
    /\ openConns' = openConns
    /\ txn' = EmptyDb

\* Leaving the with block of line 32: the connection is closed, and what the
\* transaction has not committed is rolled back.
ConnExit ==
    /\ openConns' = openConns - 1
    /\ txn' = EmptyDb

\* An exception x inside the inner try block is caught at line 46.
Caught(x) == e2' = x /\ pc' = "except"

\* line 32: engine.connect()
FallbackConnect ==
    /\ pc = "connect"
    /\ \E fault \in BOOLEAN :
        IF fault
        THEN /\ Caught("connect:OperationalError")
             /\ UNCHANGED <<openConns, txn>>
        ELSE /\ openConns' = openConns + 1
             /\ txn' = db
             /\ pc' = "query"
             /\ e2' = e2
    /\ trace' = Append(trace, EngineCall("connect", 0))
    /\ UNCHANGED <<db, op, outcome, raised, before, dropDb, prevInitOk, e, tables, i>>

\* lines 34-38: the catalog query and the list built from its rows.
FallbackQuery ==
    /\ pc = "query"
    /\ \E fault \in BOOLEAN :
        IF fault
        THEN /\ Caught("query:OperationalError")
             /\ ConnExit
             /\ tables' = tables
        ELSE /\ tables' \in Orderings(PgTables(txn))
             /\ pc' = "loop"
             /\ UNCHANGED <<e2, openConns, txn>>
    /\ i' = 1
    /\ trace' = Append(trace, EngineCall("query", 0))
    /\ UNCHANGED <<db, op, outcome, raised, before, dropDb, prevInitOk, e>>

\* Mutant: every DROP statement is committed as it executes (autocommit).
FallbackDropTableAutocommit ==
    /\ pc = "loop"
    /\ i <= Len(tables)
    /\ \E fault \in BOOLEAN :
        IF fault
        THEN /\ Caught("drop:OperationalError")
             /\ ConnExit
             /\ i' = i
             /\ db' = db
        ELSE /\ txn' = DropCascade(txn, tables[i])
             /\ db' = DropCascade(txn, tables[i])
             /\ i' = i + 1
             /\ UNCHANGED <<pc, e2, openConns>>
    /\ trace' = Append(trace, EngineCall("drop", tables[i]))
    /\ UNCHANGED <<op, outcome, raised, before, dropDb, prevInitOk, e, tables>>

\* lines 41-42: one iteration of the loop.
FallbackDropTable ==
    /\ pc = "loop"
    /\ i <= Len(tables)
    /\ \E fault \in BOOLEAN :
        IF fault
        THEN /\ Caught("drop:OperationalError")
             /\ ConnExit
             /\ i' = i
        ELSE /\ txn' = DropCascade(txn, tables[i])
             /\ i' = i + 1
             /\ UNCHANGED <<pc, e2, openConns>>
    /\ trace' = Append(trace, EngineCall("drop", tables[i]))
    /\ UNCHANGED <<db, op, outcome, raised, before, dropDb, prevInitOk, e, tables>>

\* lines 44-45 after the loop has ended, and the normal exit from the with block.
FallbackCommit ==
    /\ pc = "loop"
    /\ i > Len(tables)
    /\ \E fault \in BOOLEAN :
        LET issued == Append(trace, EngineCall("commit", 0)) IN
        IF fault
        THEN /\ Caught("commit:OperationalError")
             /\ trace' = issued
             /\ UNCHANGED <<db, outcome, raised, dropDb>>
        ELSE /\ db' = txn
             /\ trace' = Append(issued, LogRecord("info", "Dropped tables using CASCADE.", "none"))
             /\ e2' = e2
             /\ DropDbReturns
    /\ ConnExit
    /\ UNCHANGED <<op, before, prevInitOk, e, tables, i>>

\* Mutant: "raise e" instead of the bare raise: the primary exception is raised.
FallbackExceptRaisesPrimary ==
    /\ pc = "except"
    /\ trace' = Append(trace, LogRecord("error", "Failed to drop tables", e2))
    /\ DropDbRaises(e)
    /\ UNCHANGED <<db, txn, openConns, op, before, prevInitOk, e, e2, tables, i>>

\* Mutant: the handler re-raises without logging.
FallbackExceptSilent ==
    /\ pc = "except"
    /\ trace' = trace
    /\ DropDbRaises(e2)
    /\ UNCHANGED <<db, txn, openConns, op, before, prevInitOk, e, e2, tables, i>>

\* lines 46-48: log the fallback's exception and re-raise it.
FallbackExcept ==
    /\ pc = "except"
    /\ trace' = Append(trace, LogRecord("error", "Failed to drop tables", e2))
    /\ DropDbRaises(e2)
    /\ UNCHANGED <<db, txn, openConns, op, before, prevInitOk, e, e2, tables, i>>

Next ==
    \/ CallInitDb
    \/ CallDropDb
    \/ CallResetDb
    \/ InitDb
    \/ DropDbPrimary
    \/ FallbackConnect
    \/ FallbackQuery
    \/ FallbackDropTable
    \/ FallbackCommit
    \/ FallbackExcept

Spec == Init /\ [][Next]_vars

----
TypeOK ==
    /\ WellFormed(db)
    /\ WellFormed(txn)
    /\ openConns \in 0..1
    /\ pc \in {"idle", "init_db", "drop_db", "connect", "query", "loop", "except"}
    /\ op \in {"none", "init_db", "drop_db", "reset_db"}
    /\ outcome \in {"none", "returned", "raised"}
    /\ dropDb \in {"none", "returned", "raised"}
    /\ e \in PrimaryErrors \cup {"none"}
    /\ e2 \in FallbackErrors \cup {"none"}

----
\* Reading the trace of the current call.
CallsOf(name) == {k \in 1..Len(trace) : trace[k].kind = "call" /\ trace[k].name = name}
FallbackCalls == CallsOf("connect") \cup CallsOf("query") \cup CallsOf("drop") \cup CallsOf("commit")
LogsOf(level, x) == {k \in 1..Len(trace) : trace[k].kind = level /\ trace[k].exc = x}
Messages(msg) == {k \in 1..Len(trace) : trace[k].name = msg}
IsDropCall(r) == r.kind = "call" /\ r.name = "drop"
DropCalls == SelectSeq(trace, IsDropCall)

\* drop_db() has ended and its caller has not yet done anything else.
JustAfterDropDb ==
    \/ op = "drop_db" /\ pc = "idle"
    \/ op = "reset_db" /\ pc = "init_db"
    \/ op = "reset_db" /\ pc = "idle" /\ dropDb = "raised"

----
\* C1: whenever drop_db() returns normally, the catalog of the public schema is
\* empty, whatever the database held and whichever path ran.
C1_DropLeavesNoTables ==
    (op = "drop_db" /\ pc = "idle" /\ outcome = "returned") => db.tables = {}

\* C2: in reset_db(), if drop_db() raises, the exception leaves reset_db() at
\* once: create_all is never issued and "Database reset complete." is never logged.
C2_ResetFailsFast ==
    (op = "reset_db" /\ dropDb = "raised") =>
        /\ pc = "idle"
        /\ outcome = "raised"
        /\ raised = e2
        /\ CallsOf("create_all") = {}
        /\ Messages("Database tables created.") = {}
        /\ Messages("Database reset complete.") = {}

C2_Witness ==
    /\ op = "reset_db"
    /\ dropDb = "raised"
    /\ raised = "drop:OperationalError"

\* C3: the fallback (connect, catalog query, DROP ... CASCADE, commit) is entered
\* only after drop_all has raised; when drop_all succeeds none of its calls is issued.
C3_FallbackOnlyAfterPrimaryFailure ==
    /\ \A k \in FallbackCalls :
        /\ e \in PrimaryErrors
        /\ \E j \in CallsOf("drop_all") : j < k
    /\ pc \in {"connect", "query", "loop", "except"} => e \in PrimaryErrors
    /\ Messages("Database tables dropped successfully using drop_all.") # {} =>
        /\ FallbackCalls = {}
        /\ e = "none"

C3_Witness ==
    /\ op = "drop_db"
    /\ pc = "idle"
    /\ Messages("Database tables dropped successfully using drop_all.") # {}
    /\ before.tables # {}

\* C4: if both the primary drop_all and the fallback raise, drop_db() ends by
\* raising, and the exception that reaches the caller is the fallback's.
C4_FallbackExceptionPropagates ==
    /\ dropDb = "raised" =>
        /\ raised = e2
        /\ raised \in FallbackErrors
        /\ raised # e
        /\ outcome = "raised"
    /\ (e # "none" /\ e2 # "none" /\ JustAfterDropDb) =>
        /\ dropDb = "raised"
        /\ outcome = "raised"

C4_Witness ==
    /\ op = "drop_db"
    /\ dropDb = "raised"
    /\ e = "drop_all:OperationalError"
    /\ raised = "commit:OperationalError"

\* C5: drop_db() raises only when both paths fail; when drop_all raises and every
\* step of the fallback succeeds, drop_db() returns normally, the primary error
\* does not reach the caller, and the database has no table left.
C5_RaisesOnlyWhenBothFail ==
    /\ dropDb = "raised" => (e # "none" /\ e2 # "none")
    /\ (e # "none" /\ e2 = "none" /\ JustAfterDropDb) =>
        /\ dropDb = "returned"
        /\ outcome # "raised"
        /\ raised = "none"
        /\ db.tables = {}

C5_Witness ==
    /\ op = "drop_db"
    /\ pc = "idle"
    /\ e = "drop_all:DependentObjectsStillExist"
    /\ dropDb = "returned"
    /\ Cardinality(before.tables) >= 2

\* C6: after reset_db() returns normally the database holds exactly the tables
\* that init_db() creates on an empty database, whatever it held before.
C6_ResetEqualsFreshInit ==
    (op = "reset_db" /\ pc = "idle" /\ outcome = "returned") =>
        db.tables = CreateAll(EmptyDb).db.tables

\* C7: init_db() is idempotent on the table set: a second call in succession
\* leaves the database as the first left it; no call removes a table; and a call
\* made when every registered table exists fails only if the engine call is
\* interrupted, never because the tables exist.
C7_InitIdempotent ==
    (op = "init_db" /\ pc = "idle") =>
        /\ before.tables \subseteq db.tables
        /\ before.fks \subseteq db.fks
        /\ outcome = "returned" => db.tables = before.tables \cup Registry
        /\ prevInitOk => db = before
        /\ Registry \subseteq before.tables =>
            /\ db = before
            /\ outcome = "raised" => raised = "create_all:OperationalError"

C7_Witness ==
    /\ op = "init_db"
    /\ pc = "idle"
    /\ prevInitOk
    /\ outcome = "returned"
    /\ db.tables = AllTables

\* C8 (as claimed): every failure raised inside init_db(), drop_db() or
\* reset_db() has a log record of this module before it is swallowed or re-raised.
C8_EveryFailureLogged ==
    /\ e # "none" => LogsOf("warning", e) # {}
    /\ outcome = "raised" => LogsOf("error", raised) \cup LogsOf("warning", raised) # {}

\* C8 (amended): every failure raised inside drop_db() is logged before it is
\* swallowed (drop_all: a warning, before the fallback starts) or re-raised (the
\* fallback: an error); a failure of init_db(), called directly or by reset_db(),
\* reaches the caller without any log record of this module.
C8_DropFailuresLogged ==
    /\ e # "none" =>
        \E w \in LogsOf("warning", e) : \A k \in FallbackCalls : w < k
    /\ e2 # "none" /\ pc = "idle" =>
        /\ Len(trace) \in LogsOf("error", e2)
        /\ raised = e2
    /\ dropDb = "raised" => LogsOf("error", raised) # {}
    /\ (outcome = "raised" /\ dropDb # "raised") =>
        /\ raised \in InitErrors
        /\ \A k \in 1..Len(trace) : trace[k].exc # raised

C8_Witness ==
    /\ op = "reset_db"
    /\ outcome = "raised"
    /\ raised \in InitErrors
    /\ e # "none"

\* C9: the connection the fallback opens is released on every exit path, and no
\* connection is acquired when the primary path succeeds.
C9_ConnectionReleased ==
    /\ pc \in {"query", "loop"} => openConns = 1
    /\ pc \notin {"query", "loop"} => openConns = 0
    /\ e = "none" => CallsOf("connect") = {}
    /\ Cardinality(CallsOf("connect")) <= 1

C9_Witness ==
    /\ pc = "except"
    /\ e2 = "drop:OperationalError"
    /\ i > 1
    /\ openConns = 0

\* C10: the fallback is all-or-nothing: one DROP ... CASCADE per table name the
\* catalog query returned, then exactly one commit; if the query or a DROP
\* raises, commit is never issued and no drop of the fallback is durable.
C10_FallbackAllOrNothing ==
    /\ Cardinality(CallsOf("commit")) <= 1
    /\ \A c \in CallsOf("commit") :
        /\ Len(DropCalls) = Len(tables)
        /\ \A k \in 1..Len(tables) : DropCalls[k].table = tables[k]
        /\ {tables[k] : k \in 1..Len(tables)} = before.tables
        /\ \A k \in CallsOf("drop") : k < c
    /\ e2 \in {"query:OperationalError", "drop:OperationalError"} =>
        /\ CallsOf("commit") = {}
        /\ db = before
    /\ pc \in {"query", "loop", "except"} => db = before

C10_Witness ==
    /\ pc = "idle"
    /\ e2 = "drop:OperationalError"
    /\ Len(DropCalls) >= 2
    /\ db = before
    /\ db.tables # {}
====
